---- MODULE Spec2Model ----
(***************************************************************************)
(* Model of db/query.cpp: deleteObjects, updateObjects and runQuery, each  *)
(* a full scan of one namespace driven by a forward-only cursor.           *)
(*                                                                         *)
(* The record store (theDataFileMgr), the cursor and the document type     *)
(* (JSObj / JSMatcher) live in pdfile.h and jsobj.h, which are not part of *)
(* the sources at hand; they are modelled from the specification's         *)
(* description of the collaborator interfaces.                             *)
(***************************************************************************)
EXTENDS Integers, Sequences, FiniteSets, TLC

VARIABLES
    ns,       \* the namespace string the calls are issued on (char sequence)
    store,    \* records of ns in scan order: [loc, doc, cap]
    nextLoc,  \* next unused DiskLoc
    calls,    \* number of calls issued so far
    pc,       \* position inside the running call
    call,     \* arguments of the running call
    c,        \* cursor position (a DiskLoc, NullLoc when exhausted)
    r,        \* Record* captured from the cursor
    rloc,     \* DiskLoc captured from the cursor
    n,        \* runQuery: number of documents appended
    b,        \* runQuery: documents appended to the BufBuilder, in order
    qr,       \* runQuery: the reply header
    err,      \* the ERROR line printed by the protection check, if any
    trace,    \* collaborator calls issued by the running call, in order
    pre,      \* the store as it was when the running call started
    mf,       \* the MongoFiles object: Command, FileName, GridFSPrefix
    vc        \* the last ValidateCommand call: its arguments and its error

vars == <<ns, store, nextLoc, calls, pc, call, c, r, rloc, n, b, qr, err,
          trace, pre, mf, vc>>

-----------------------------------------------------------------------------
(* Bounds *)

MaxRecs == 3      \* records initially in the namespace
MaxCalls == 2     \* calls issued in one behaviour
MaxLimit == 2     \* largest ntoreturn passed to runQuery
MaxArgs == 3      \* longest argument list passed to ValidateCommand

-----------------------------------------------------------------------------
(* Documents *)

EmptyObj == [f \in {} |-> 0]

Tags == {"a", "b"}

\* the document stored at position i of the initial namespace
StoredDoc(i, t) == [id |-> i, tag |-> t]

Patterns == {EmptyObj, [tag |-> "a"]}

Payloads == {[tag |-> "a"], [tag |-> "z"], [id |-> 9, tag |-> "z", n |-> 1]}

\* encoded size of one element: type byte, field name with NUL, value
ElemSize(f) ==
    CASE f = "id"  -> 1 + 3 + 4
      [] f = "tag" -> 1 + 4 + 4 + 2
      [] f = "n"   -> 1 + 2 + 4

RECURSIVE SumElems(_, _)
SumElems(doc, fs) ==
    IF fs = {} THEN 0
    ELSE LET f == CHOOSE g \in fs : TRUE
         IN  ElemSize(f) + SumElems(doc, fs \ {f})

\* JSObj::objsize: int32 length, the elements, the end-of-object byte
objsize(doc) == 4 + SumElems(doc, DOMAIN doc) + 1

\* JSMatcher::matches: every field of the pattern is in the document with
\* the same value
matches(pattern, doc) ==
    \A f \in DOMAIN pattern : f \in DOMAIN doc /\ doc[f] = pattern[f]

-----------------------------------------------------------------------------
(* Namespaces *)

NsItems == <<"d","b",".","i","t","e","m","s">>
NsSystem == <<"s","y","s","t","e","m",".","i","n","d","e","x","e","s">>
NsDbSystem == <<"d","b",".","s","y","s","t","e","m",".","i","n","d","e","x","e","s">>

NsShort == <<"s","y","s","t","e","m">>

Namespaces == {NsItems, NsSystem, NsDbSystem, NsShort}

SystemPrefix == <<"s","y","s","t","e","m",".">>

\* the character at position i of a C string; NUL from its end on
CharAt(s, i) == IF i <= Len(s) THEN s[i] ELSE "NUL"

\* strncmp(s, t, k) == 0: the first k characters agree, comparison stopping
\* at a terminating NUL
StrncmpEq(s, t, k) ==
    \A i \in 1..k :
        (\A j \in 1..(i-1) : CharAt(s, j) # "NUL")
            => CharAt(s, i) = CharAt(t, i)

\* variant: the comparison stops one character early
IsSystemNs_Six(name) == StrncmpEq(name, SystemPrefix, 6)

\* the protection check of deleteObjects and updateObjects
IsSystemNs(name) == StrncmpEq(name, SystemPrefix, 7)

-----------------------------------------------------------------------------
(* Record store and cursor *)

NullLoc == 0

Locs(s) == {s[i].loc : i \in 1..Len(s)}

IndexOf(s, loc) == CHOOSE i \in 1..Len(s) : s[i].loc = loc

Rec(loc, doc) == [loc |-> loc, doc |-> doc, cap |-> objsize(doc)]

RECURSIVE Without(_, _)
Without(s, loc) ==
    IF s = <<>> THEN <<>>
    ELSE IF Head(s).loc = loc THEN Without(Tail(s), loc)
         ELSE <<Head(s)>> \o Without(Tail(s), loc)

\* theDataFileMgr.findAll(ns): a cursor on the first record, exhausted at
\* once on an empty namespace
FindAll(s) == IF s = <<>> THEN NullLoc ELSE s[1].loc

\* Cursor::ok
ok(cur) == cur # NullLoc

\* Cursor::advance: the positions the cursor can move to.  The link to the
\* next record lives in the current record; once that record is deleted the
\* link is dead and the cursor may land anywhere.
Advance(s, cur) ==
    IF cur \in Locs(s)
    THEN LET i == IndexOf(s, cur)
         IN  {IF i < Len(s) THEN s[i+1].loc ELSE NullLoc}
    ELSE Locs(s) \cup {NullLoc}

\* JSObj(Record*): the documents a record pointer can be read as; a pointer
\* to a deleted record reads as anything
AnyDoc == {StoredDoc(1, t) : t \in Tags} \cup Payloads

RecordObj(s, ptr) ==
    IF ptr \in Locs(s) THEN {s[IndexOf(s, ptr)].doc} ELSE AnyDoc

\* theDataFileMgr.deleteRecord: the stores that can result.  Deleting a
\* location that is not live is undefined: any one record may be unlinked.
DeleteRecord(s, loc) ==
    IF loc \in Locs(s) THEN {Without(s, loc)}
    ELSE {s} \cup {Without(s, l) : l \in Locs(s)}

\* theDataFileMgr.insert: appends a new record
Insert(s, loc, doc) == Append(s, Rec(loc, doc))

\* theDataFileMgr.update: overwrites the record in place when the new
\* content fits the record, otherwise moves it to a new location
Update(s, loc, newLoc, doc) ==
    IF loc \notin Locs(s) THEN {s} \cup {Without(s, l) : l \in Locs(s)}
    ELSE LET i == IndexOf(s, loc)
         IN  IF objsize(doc) <= s[i].cap
             THEN {[s EXCEPT ![i].doc = doc]}
             ELSE {Insert(Without(s, loc), newLoc, doc)}

Relocates(s, loc, doc) ==
    loc \in Locs(s) /\ objsize(doc) > s[IndexOf(s, loc)].cap

-----------------------------------------------------------------------------
(* Bookkeeping of the running call *)

NoCall == [op |-> "none", pattern |-> EmptyObj, updateobj |-> EmptyObj,
           flag |-> FALSE, ntoreturn |-> 0]

NoReply == [len |-> 0, reserved |-> 0, operation |-> 0, cursorId |-> 0,
            startingFrom |-> 0, nReturned |-> 0]

\* one collaborator call: its name, the location it is about, and where the
\* cursor stood when it was issued
Ev(name, loc, at) == [op |-> name, loc |-> loc, at |-> at]

\* a MongoFiles value before ValidateCommand has run: the string fields are
\* empty, the GridFS prefix comes from the storage options
NewMongoFiles(prefix) ==
    [Command |-> "", FileName |-> "", GridFSPrefix |-> prefix]

NoValidation == [args |-> <<>>, err |-> "nil"]

InitStores ==
    UNION {{[i \in 1..k |-> Rec(i, StoredDoc(i, t[i]))] : t \in [1..k -> Tags]}
           : k \in 0..MaxRecs}

Init ==
    /\ ns \in Namespaces
    /\ store \in InitStores
    /\ nextLoc = Len(store) + 1
    /\ calls = 0
    /\ pc = "idle"
    /\ call = NoCall
    /\ c = NullLoc
    /\ r = NullLoc
    /\ rloc = NullLoc
    /\ n = 0
    /\ b = <<>>
    /\ qr = NoReply
    /\ err = "none"
    /\ trace = <<>>
    /\ pre = store
    /\ mf = NewMongoFiles("fs")
    /\ vc = NoValidation

-----------------------------------------------------------------------------
(* deleteObjects *)

\* lines 11-22: the protection check, the matcher, the cursor
CallDelete(pattern, justOne) ==
    /\ pc = "idle"
    /\ calls < MaxCalls
    /\ calls' = calls + 1
    /\ call' = [NoCall EXCEPT !.op = "delete", !.pattern = pattern,
                              !.flag = justOne]
    /\ pre' = store
    /\ IF IsSystemNs(ns)
       THEN /\ err' = "system_ns"
            /\ pc' = "done"
            /\ c' = NullLoc
            /\ trace' = <<>>
       ELSE /\ err' = "none"
            /\ pc' = "del_loop"
            /\ c' = FindAll(store)
            /\ trace' = <<Ev("findAll", NullLoc, NullLoc)>>
    /\ UNCHANGED <<mf, vc, ns, store, nextLoc, r, rloc, n, b, qr>>

\* lines 23-25: while( c->ok() ), capture the record and its location
DelCapture ==
    /\ pc = "del_loop"
    /\ ok(c)
    /\ r' = c
    /\ rloc' = c
    /\ trace' = trace \o <<Ev("current", c, c), Ev("currLoc", c, c)>>
    /\ pc' = "del_advance"
    /\ UNCHANGED <<mf, vc, ns, store, nextLoc, calls, call, c, n, b, qr, err, pre>>

\* variant: the advance before the delete is left out
DelAdvance_Missing ==
    /\ pc = "del_advance"
    /\ pc' = "del_match"
    /\ UNCHANGED <<mf, vc, ns, store, nextLoc, calls, call, c, r, rloc, n, b, qr, err,
                   trace, pre>>

\* line 26: c->advance()
DelAdvance ==
    /\ pc = "del_advance"
    /\ c' \in Advance(store, c)
    /\ trace' = Append(trace, Ev("advance", c, c))
    /\ pc' = "del_match"
    /\ UNCHANGED <<mf, vc, ns, store, nextLoc, calls, call, r, rloc, n, b, qr, err,
                   pre>>

\* lines 27-28: JSObj js(r); matcher.matches(js)
DelMatch ==
    /\ pc = "del_match"
    /\ \E js \in RecordObj(store, r) :
           pc' = IF matches(call.pattern, js) THEN "del_delete" ELSE "del_loop"
    /\ UNCHANGED <<mf, vc, ns, store, nextLoc, calls, call, c, r, rloc, n, b, qr,
                   err, trace, pre>>

\* variant: returns after the first delete whatever justOne says
DelDelete_AlwaysReturn ==
    /\ pc = "del_delete"
    /\ store' \in DeleteRecord(store, rloc)
    /\ trace' = Append(trace, Ev("deleteRecord", rloc, c))
    /\ pc' = "done"
    /\ UNCHANGED <<mf, vc, ns, nextLoc, calls, call, c, r, rloc, n, b, qr, err, pre>>

\* variant: goes on scanning whatever justOne says
DelDelete_NeverReturn ==
    /\ pc = "del_delete"
    /\ store' \in DeleteRecord(store, rloc)
    /\ trace' = Append(trace, Ev("deleteRecord", rloc, c))
    /\ pc' = "del_loop"
    /\ UNCHANGED <<mf, vc, ns, nextLoc, calls, call, c, r, rloc, n, b, qr, err, pre>>

\* lines 30-32: deleteRecord(ns, r, rloc); if( justOne ) return
DelDelete ==
    /\ pc = "del_delete"
    /\ store' \in DeleteRecord(store, rloc)
    /\ trace' = Append(trace, Ev("deleteRecord", rloc, c))
    /\ pc' = IF call.flag THEN "done" ELSE "del_loop"
    /\ UNCHANGED <<mf, vc, ns, nextLoc, calls, call, c, r, rloc, n, b, qr, err, pre>>

\* variant: a failing deleteRecord is swallowed and the scan goes on
DelDeleteFails_Swallowed ==
    /\ pc = "del_delete"
    /\ trace' = Append(trace, Ev("deleteRecord", rloc, c))
    /\ err' = "io_failure"
    /\ pc' = "del_loop"
    /\ UNCHANGED <<mf, vc, ns, store, nextLoc, calls, call, c, r, rloc, n, b, qr, pre>>

\* line 30, deleteRecord failing: the record stays, nothing in deleteObjects
\* catches the failure, and the call is left with it at once
DelDeleteFails ==
    /\ pc = "del_delete"
    /\ trace' = Append(trace, Ev("deleteRecord", rloc, c))
    /\ err' = "io_failure"
    /\ pc' = "done"
    /\ UNCHANGED <<mf, vc, ns, store, nextLoc, calls, call, c, r, rloc, n, b, qr, pre>>

\* line 23 false: the scan is exhausted
DelExhausted ==
    /\ pc = "del_loop"
    /\ ~ok(c)
    /\ pc' = "done"
    /\ UNCHANGED <<mf, vc, ns, store, nextLoc, calls, call, c, r, rloc, n, b, qr,
                   err, trace, pre>>

-----------------------------------------------------------------------------
(* updateObjects *)

\* lines 37-48: the protection check, the matcher, the cursor
CallUpdate(updateobj, pattern, upsert) ==
    /\ pc = "idle"
    /\ calls < MaxCalls
    /\ calls' = calls + 1
    /\ call' = [NoCall EXCEPT !.op = "update", !.pattern = pattern,
                              !.updateobj = updateobj, !.flag = upsert]
    /\ pre' = store
    /\ IF IsSystemNs(ns)
       THEN /\ err' = "system_ns"
            /\ pc' = "done"
            /\ c' = NullLoc
            /\ trace' = <<>>
       ELSE /\ err' = "none"
            /\ pc' = "upd_loop"
            /\ c' = FindAll(store)
            /\ trace' = <<Ev("findAll", NullLoc, NullLoc)>>
    /\ UNCHANGED <<mf, vc, ns, store, nextLoc, r, rloc, n, b, qr>>

\* lines 49-52: while( c->ok() ), read the current record and match it
UpdMatch ==
    /\ pc = "upd_loop"
    /\ ok(c)
    /\ r' = c
    /\ trace' = Append(trace, Ev("current", c, c))
    /\ \E js \in RecordObj(store, c) :
           pc' = IF matches(call.pattern, js) THEN "upd_update"
                                              ELSE "upd_advance"
    /\ UNCHANGED <<mf, vc, ns, store, nextLoc, calls, call, c, rloc, n, b, qr, err,
                   pre>>

\* variant: the return after the update is left out
UpdUpdate_NoReturn ==
    /\ pc = "upd_update"
    /\ rloc' = c
    /\ store' \in Update(store, c, nextLoc, call.updateobj)
    /\ nextLoc' = IF Relocates(store, c, call.updateobj) THEN nextLoc + 1
                                                         ELSE nextLoc
    /\ trace' = trace \o <<Ev("currLoc", c, c), Ev("update", c, c)>>
    /\ pc' = "upd_advance"
    /\ UNCHANGED <<mf, vc, ns, calls, call, c, r, n, b, qr, err, pre>>

\* variant: the cursor is advanced before the update is issued, the update
\* using the location read before the advance
UpdUpdate_AdvanceFirst ==
    /\ pc = "upd_update"
    /\ rloc' = c
    /\ \E nxt \in Advance(store, c) :
           /\ c' = nxt
           /\ trace' = trace \o <<Ev("currLoc", c, c), Ev("advance", c, c),
                                  Ev("update", c, nxt)>>
    /\ store' \in Update(store, c, nextLoc, call.updateobj)
    /\ nextLoc' = IF Relocates(store, c, call.updateobj) THEN nextLoc + 1
                                                         ELSE nextLoc
    /\ pc' = "done"
    /\ UNCHANGED <<mf, vc, ns, calls, call, r, n, b, qr, err, pre>>

\* lines 54-55: update(ns, r, c->currLoc(), ...); return
UpdUpdate ==
    /\ pc = "upd_update"
    /\ rloc' = c
    /\ store' \in Update(store, c, nextLoc, call.updateobj)
    /\ nextLoc' = IF Relocates(store, c, call.updateobj) THEN nextLoc + 1
                                                         ELSE nextLoc
    /\ trace' = trace \o <<Ev("currLoc", c, c), Ev("update", c, c)>>
    /\ pc' = "done"
    /\ UNCHANGED <<mf, vc, ns, calls, call, c, r, n, b, qr, err, pre>>

\* line 57: c->advance()
UpdAdvance ==
    /\ pc = "upd_advance"
    /\ c' \in Advance(store, c)
    /\ trace' = Append(trace, Ev("advance", c, c))
    /\ pc' = "upd_loop"
    /\ UNCHANGED <<mf, vc, ns, store, nextLoc, calls, call, r, rloc, n, b, qr, err,
                   pre>>

\* variant: the insert on upsert is left out
UpdExhausted_NoInsert ==
    /\ pc = "upd_loop"
    /\ ~ok(c)
    /\ pc' = "done"
    /\ UNCHANGED <<mf, vc, ns, store, nextLoc, calls, call, c, r, rloc, n, b, qr, err,
                   trace, pre>>

\* variant: inserts whatever upsert says
UpdExhausted_AlwaysInsert ==
    /\ pc = "upd_loop"
    /\ ~ok(c)
    /\ store' = Insert(store, nextLoc, call.updateobj)
    /\ nextLoc' = nextLoc + 1
    /\ trace' = Append(trace, Ev("insert", nextLoc, c))
    /\ pc' = "done"
    /\ UNCHANGED <<mf, vc, ns, calls, call, c, r, rloc, n, b, qr, err, pre>>

\* lines 60-65: no match found; insert the update object on upsert
UpdExhausted ==
    /\ pc = "upd_loop"
    /\ ~ok(c)
    /\ IF call.flag
       THEN /\ store' = Insert(store, nextLoc, call.updateobj)
            /\ nextLoc' = nextLoc + 1
            /\ trace' = Append(trace, Ev("insert", nextLoc, c))
       ELSE UNCHANGED <<store, nextLoc, trace>>
    /\ pc' = "done"
    /\ UNCHANGED <<mf, vc, ns, calls, call, c, r, rloc, n, b, qr, err, pre>>

-----------------------------------------------------------------------------
(* runQuery *)

\* sizeof(QueryResult): len, reserved, operation, cursorId, startingFrom,
\* nReturned
HeaderSize == 4 + 4 + 4 + 8 + 4 + 4

opReply == 1

Limits == (-1)..MaxLimit

RECURSIVE SumSizes(_)
SumSizes(docs) ==
    IF docs = <<>> THEN 0 ELSE objsize(Head(docs)) + SumSizes(Tail(docs))

\* variant: the header is not counted in the length
BufLen_NoHeader(docs) == SumSizes(docs)

\* BufBuilder::len after skip(sizeof(QueryResult)) and the appends
BufLen(docs) == HeaderSize + SumSizes(docs)

\* variant: the test for the unbounded sentinel is left out
ShouldBreak_NoZeroTest(count, ntoreturn) == count >= ntoreturn

\* variant: the scan stops one match late
ShouldBreak_Greater(count, ntoreturn) == count > ntoreturn /\ ntoreturn # 0

\* variant: only a positive ntoreturn bounds the scan
ShouldBreak_PositiveOnly(count, ntoreturn) == count >= ntoreturn /\ ntoreturn > 0

\* line 91: if( n >= ntoreturn && ntoreturn != 0 ) break
ShouldBreak(count, ntoreturn) == count >= ntoreturn /\ ntoreturn # 0

\* lines 68-84: the buffer, the matcher, the cursor
CallQuery(ntoreturn, jsobj) ==
    /\ pc = "idle"
    /\ calls < MaxCalls
    /\ calls' = calls + 1
    /\ call' = [NoCall EXCEPT !.op = "query", !.pattern = jsobj,
                              !.ntoreturn = ntoreturn]
    /\ pre' = store
    /\ err' = "none"
    /\ b' = <<>>
    /\ n' = 0
    /\ c' = FindAll(store)
    /\ trace' = <<Ev("findAll", NullLoc, NullLoc)>>
    /\ pc' = "q_loop"
    /\ UNCHANGED <<mf, vc, ns, store, nextLoc, r, rloc, qr>>

\* variant: the matching record is also deleted, as in deleteObjects
QMatch_Deletes ==
    /\ pc = "q_loop"
    /\ ok(c)
    /\ \E js \in RecordObj(store, c) :
           IF matches(call.pattern, js)
           THEN /\ b' = Append(b, js)
                /\ n' = n + 1
                /\ store' \in DeleteRecord(store, c)
                /\ trace' = trace \o <<Ev("current", c, c),
                                       Ev("deleteRecord", c, c)>>
                /\ pc' = IF ShouldBreak(n + 1, call.ntoreturn) THEN "q_reply"
                                                               ELSE "q_advance"
           ELSE /\ pc' = "q_advance"
                /\ trace' = Append(trace, Ev("current", c, c))
                /\ UNCHANGED <<b, n, store>>
    /\ UNCHANGED <<mf, vc, ns, nextLoc, calls, call, c, r, rloc, qr, err, pre>>

\* lines 86-93: while( c->ok() ), read, match, append, count, break
QMatch ==
    /\ pc = "q_loop"
    /\ ok(c)
    /\ trace' = Append(trace, Ev("current", c, c))
    /\ \E js \in RecordObj(store, c) :
           IF matches(call.pattern, js)
           THEN /\ b' = Append(b, js)
                /\ n' = n + 1
                /\ pc' = IF ShouldBreak(n + 1, call.ntoreturn) THEN "q_reply"
                                                               ELSE "q_advance"
           ELSE /\ pc' = "q_advance"
                /\ UNCHANGED <<b, n>>
    /\ UNCHANGED <<mf, vc, ns, store, nextLoc, calls, call, c, r, rloc, qr, err, pre>>

\* variant: the advance at the end of the loop body is left out
QAdvance_Missing ==
    /\ pc = "q_advance"
    /\ pc' = "q_loop"
    /\ UNCHANGED <<mf, vc, ns, store, nextLoc, calls, call, c, r, rloc, n, b, qr, err,
                   trace, pre>>

\* line 94: c->advance()
QAdvance ==
    /\ pc = "q_advance"
    /\ c' \in Advance(store, c)
    /\ trace' = Append(trace, Ev("advance", c, c))
    /\ pc' = "q_loop"
    /\ UNCHANGED <<mf, vc, ns, store, nextLoc, calls, call, r, rloc, n, b, qr, err,
                   pre>>

\* lines 97-106: the reply header, after the break or the end of the scan
QReply ==
    /\ \/ pc = "q_reply"
       \/ pc = "q_loop" /\ ~ok(c)
    /\ qr' = [len |-> BufLen(b), reserved |-> 0, operation |-> opReply,
              cursorId |-> 0, startingFrom |-> 0, nReturned |-> n]
    /\ pc' = "done"
    /\ UNCHANGED <<mf, vc, ns, store, nextLoc, calls, call, c, r, rloc, n, b, err,
                   trace, pre>>

-----------------------------------------------------------------------------
(* MongoFiles.ValidateCommand *)

List == "list"
Search == "search"
Put == "put"
Get == "get"
Delete == "delete"

ArgVals == {List, Search, Put, Get, Delete, "bogus", "", "a.txt"}

\* argument lists: every list of up to two arguments, and some longer ones
ArgLists ==
    UNION {[1..k -> ArgVals] : k \in 0..2}
        \cup UNION {[1..k -> {Get, "a.txt"}] : k \in 3..MaxArgs}

Prefixes == {"", "fs"}

\* lines 164-187: the error of the argument checks ("nil" when they pass)
ArgError(args) ==
    IF Len(args) = 0 THEN "no command specified"
    ELSE IF Len(args) > 2 THEN "too many positional arguments"
    ELSE IF args[1] = List THEN "nil"
    ELSE IF args[1] \in {Search, Put, Get, Delete}
         THEN IF Len(args) = 1 \/ args[2] = "" THEN "argument missing"
                                               ELSE "nil"
    ELSE "not a valid command"

\* lines 170-184: the local fileName once the argument checks have passed
FileNameOf(args) == IF Len(args) = 1 THEN "" ELSE args[2]

queryVars == <<ns, store, nextLoc, calls, pc, call, c, r, rloc, n, b, qr,
               err, trace, pre>>

\* variant: Command and FileName are assigned before the prefix check
ValidateCommand_AssignsBeforePrefixCheck(args) ==
    /\ IF ArgError(args) # "nil"
       THEN /\ vc' = [args |-> args, err |-> ArgError(args)]
            /\ mf' = mf
       ELSE /\ mf' = [mf EXCEPT !.Command = args[1],
                                !.FileName = FileNameOf(args)]
            /\ vc' = [args |-> args,
                      err |-> IF mf.GridFSPrefix = ""
                              THEN "--prefix can not be blank" ELSE "nil"]
    /\ UNCHANGED queryVars

\* lines 161-197
ValidateCommand(args) ==
    /\ IF ArgError(args) # "nil"
       THEN /\ vc' = [args |-> args, err |-> ArgError(args)]
            /\ mf' = mf
       ELSE IF mf.GridFSPrefix = ""
       THEN /\ vc' = [args |-> args, err |-> "--prefix can not be blank"]
            /\ mf' = mf
       ELSE /\ mf' = [mf EXCEPT !.Command = args[1],
                                !.FileName = FileNameOf(args)]
            /\ vc' = [args |-> args, err |-> "nil"]
    /\ UNCHANGED queryVars

MFInit ==
    /\ ns = NsItems
    /\ store = <<>>
    /\ nextLoc = 1
    /\ calls = 0
    /\ pc = "idle"
    /\ call = NoCall
    /\ c = NullLoc
    /\ r = NullLoc
    /\ rloc = NullLoc
    /\ n = 0
    /\ b = <<>>
    /\ qr = NoReply
    /\ err = "none"
    /\ trace = <<>>
    /\ pre = <<>>
    /\ \E prefix \in Prefixes : mf = NewMongoFiles(prefix)
    /\ vc = NoValidation

MFNext == \E args \in ArgLists : ValidateCommand(args)

MFSpec == MFInit /\ [][MFNext]_vars

-----------------------------------------------------------------------------
(* The caller takes the result; the call's locals go away *)

Return ==
    /\ pc = "done"
    /\ pc' = "idle"
    /\ call' = NoCall
    /\ c' = NullLoc
    /\ r' = NullLoc
    /\ rloc' = NullLoc
    /\ n' = 0
    /\ b' = <<>>
    /\ qr' = NoReply
    /\ err' = "none"
    /\ trace' = <<>>
    /\ pre' = store
    /\ UNCHANGED <<mf, vc, ns, store, nextLoc, calls>>

-----------------------------------------------------------------------------

Next ==
    \/ \E p \in Patterns, j \in BOOLEAN : CallDelete(p, j)
    \/ DelCapture
    \/ DelAdvance
    \/ DelMatch
    \/ DelDelete
    \/ DelDeleteFails
    \/ DelExhausted
    \/ \E u \in Payloads, p \in Patterns, up \in BOOLEAN : CallUpdate(u, p, up)
    \/ UpdMatch
    \/ UpdUpdate
    \/ UpdAdvance
    \/ UpdExhausted
    \/ \E l \in Limits, p \in Patterns : CallQuery(l, p)
    \/ QMatch
    \/ QAdvance
    \/ QReply
    \/ Return

Spec == Init /\ [][Next]_vars

\* the next statement of the running call.  Each of the three functions is
\* one blocking, sequential call: once entered, its next statement is
\* eventually executed.
Running ==
    \/ DelCapture \/ DelAdvance \/ DelMatch \/ DelDelete \/ DelDeleteFails
    \/ DelExhausted
    \/ UpdMatch \/ UpdUpdate \/ UpdAdvance \/ UpdExhausted
    \/ QMatch \/ QAdvance \/ QReply

FairSpec == Spec /\ WF_vars(Running)

-----------------------------------------------------------------------------
(* Vocabulary of the properties *)

\* positions of the records of s that the pattern selects
MatchIdx(s, pattern) == {i \in 1..Len(s) : matches(pattern, s[i].doc)}

Min(S) == CHOOSE x \in S : \A y \in S : x <= y

FirstMatch(s, pattern) == Min(MatchIdx(s, pattern))

\* the records of s the pattern selects / does not select, in scan order
Selected(s, pattern) ==
    SelectSeq(s, LAMBDA rec : matches(pattern, rec.doc))

Rejected(s, pattern) ==
    SelectSeq(s, LAMBDA rec : ~matches(pattern, rec.doc))

DocsOf(s) == [i \in 1..Len(s) |-> s[i].doc]

\* positions of the trace holding a call of the given name
Issued(name) == {i \in 1..Len(trace) : trace[i].op = name}

Mutations == Issued("insert") \cup Issued("update") \cup Issued("deleteRecord")

\* the call was let through by the protection check and no store primitive
\* failed under it
Accepted == err = "none"

\* the collection component of a namespace: what follows the database prefix
CollectionOf(name) ==
    LET dots == {i \in 1..Len(name) : name[i] = "."}
    IN  IF dots = {} THEN name ELSE SubSeq(name, Min(dots) + 1, Len(name))

StartsWith(s, p) == Len(s) >= Len(p) /\ SubSeq(s, 1, Len(p)) = p

IsProtectedCollection(name) == StartsWith(CollectionOf(name), SystemPrefix)

-----------------------------------------------------------------------------
(* Properties *)

\* C1: in deleteObjects every deleteRecord is issued for a record whose
\* location was captured from the cursor and which the cursor has then been
\* advanced past; the delete uses that captured record and location, and
\* the cursor never stands on the record being deleted.
C1_AdvanceBeforeDelete ==
    call.op = "delete" =>
        /\ \A i \in Issued("deleteRecord") :
              /\ trace[i].at # trace[i].loc
              /\ i >= 4
              /\ trace[i-3] = Ev("current", trace[i].loc, trace[i].loc)
              /\ trace[i-2] = Ev("currLoc", trace[i].loc, trace[i].loc)
              /\ trace[i-1] = Ev("advance", trace[i].loc, trace[i].loc)
        /\ pc = "del_delete" =>
              /\ r = rloc
              /\ c # rloc
              /\ trace[Len(trace)] = Ev("advance", rloc, rloc)

\* a matching record has been deleted while the cursor stood on its successor
C1_Witness ==
    /\ call.op = "delete"
    /\ \E i \in Issued("deleteRecord") :
          /\ trace[i].at # NullLoc
          /\ trace[i].loc \in Locs(pre)
          /\ trace[i].loc \notin Locs(store)

\* C2 as stated: in updateObjects the update is issued only after the cursor
\* has been advanced past the record; the record being updated is never the
\* cursor's current record.
C2_AdvanceBeforeUpdate ==
    call.op = "update" =>
        \A i \in Issued("update") :
            /\ trace[i].at # trace[i].loc
            /\ \E j \in 1..(i-1) : trace[j] = Ev("advance", trace[i].loc, trace[i].loc)

\* C2 amended: in updateObjects the update is issued on the record the cursor
\* stands on, with the location read from the cursor at that moment and
\* without advancing past it; it is the last thing the call does: the cursor
\* is neither advanced nor read afterwards and the call returns.
C2_UpdateOnCurrentThenReturn ==
    call.op = "update" =>
        \A i \in Issued("update") :
            /\ trace[i].at = trace[i].loc
            /\ trace[i-1] = Ev("currLoc", trace[i].loc, trace[i].loc)
            /\ trace[i-2] = Ev("current", trace[i].loc, trace[i].loc)
            /\ \A j \in 1..(i-1) :
                  trace[j] # Ev("advance", trace[i].loc, trace[i].loc)
            /\ i = Len(trace)
            /\ c = trace[i].loc
            /\ pc = "done"

\* the first match has been updated while more records follow it
C2_Witness ==
    /\ call.op = "update"
    /\ pc = "done"
    /\ \E i \in Issued("update") :
          /\ trace[i].loc \in Locs(pre)
          /\ IndexOf(pre, trace[i].loc) < Len(pre)
    /\ store # pre

\* C3 as stated: on a namespace whose collection component is a system
\* collection, deleteObjects and updateObjects are rejected before the scan
\* is opened and before any mutation, and the store is unchanged.
C3_ProtectedCollectionRejected ==
    (call.op \in {"delete", "update"} /\ IsProtectedCollection(ns)) =>
        /\ err = "system_ns"
        /\ trace = <<>>
        /\ store = pre

\* C4: after an accepted deleteObjects with justOne = false on a namespace
\* with at least one match, the store holds exactly the non-matching
\* records, in their previous order.
C4_DeleteAll ==
    (/\ pc = "done"
     /\ call.op = "delete"
     /\ ~call.flag
     /\ Accepted
     /\ MatchIdx(pre, call.pattern) # {})
        => store = Rejected(pre, call.pattern)

\* several matches around a survivor have been deleted
C4_Witness ==
    /\ pc = "done"
    /\ call.op = "delete"
    /\ ~call.flag
    /\ Accepted
    /\ Cardinality(MatchIdx(pre, call.pattern)) >= 2
    /\ Len(Rejected(pre, call.pattern)) >= 1
    /\ Len(store) < Len(pre)

\* C5: after an accepted deleteObjects with justOne = true on a namespace
\* with at least one match, exactly the first match is gone, the delete is
\* the last thing the call did, and no record after the first match was
\* read, captured or deleted.
C5_DeleteOne ==
    (/\ pc = "done"
     /\ call.op = "delete"
     /\ call.flag
     /\ Accepted
     /\ MatchIdx(pre, call.pattern) # {})
        => LET first == FirstMatch(pre, call.pattern)
           IN  /\ store = Without(pre, pre[first].loc)
               /\ Len(store) = Len(pre) - 1
               /\ Cardinality(Issued("deleteRecord")) = 1
               /\ trace[Len(trace)].op = "deleteRecord"
               /\ trace[Len(trace)].loc = pre[first].loc
               /\ \A i \in Issued("current") \cup Issued("currLoc")
                           \cup Issued("deleteRecord") :
                      IndexOf(pre, trace[i].loc) <= first

\* the first of several matches has been deleted, a later match survives
C5_Witness ==
    /\ pc = "done"
    /\ call.op = "delete"
    /\ call.flag
    /\ Accepted
    /\ Cardinality(MatchIdx(pre, call.pattern)) >= 2
    /\ Len(store) = Len(pre) - 1
    /\ MatchIdx(store, call.pattern) # {}

\* C6: after an accepted updateObjects on a namespace with at least one
\* match, one record holds the update object in place of the first match
\* and every other record, matching or not, is as it was.
C6_UpdateFirstOnly ==
    (/\ pc = "done"
     /\ call.op = "update"
     /\ Accepted
     /\ MatchIdx(pre, call.pattern) # {})
        => LET first  == FirstMatch(pre, call.pattern)
               others == Without(pre, pre[first].loc)
           IN  /\ Len(store) = Len(pre)
               /\ Cardinality(Issued("update")) = 1
               /\ \E j \in 1..Len(store) :
                      /\ store[j].doc = call.updateobj
                      /\ store[j].loc \notin Locs(others)
                      /\ Without(store, store[j].loc) = others
                      /\ \/ store[j].loc = pre[first].loc /\ j = first
                         \/ store[j].loc \notin Locs(pre) /\ j = Len(store)

\* the first of several matches has been changed
C6_Witness ==
    /\ pc = "done"
    /\ call.op = "update"
    /\ Accepted
    /\ Cardinality(MatchIdx(pre, call.pattern)) >= 2
    /\ store # pre
    /\ Cardinality(MatchIdx(store, call.pattern)) >= 1

\* C7: after an accepted updateObjects with upsert = true on a namespace
\* with no match, the store is the previous store followed by one new record
\* holding the update object.
C7_UpsertInserts ==
    (/\ pc = "done"
     /\ call.op = "update"
     /\ call.flag
     /\ Accepted
     /\ MatchIdx(pre, call.pattern) = {})
        => /\ Len(store) = Len(pre) + 1
           /\ SubSeq(store, 1, Len(pre)) = pre
           /\ store[Len(store)].doc = call.updateobj
           /\ store[Len(store)].loc \notin Locs(pre)
           /\ Cardinality(Mutations) = 1

\* an upsert has added a record to a namespace that held non-matching ones
C7_Witness ==
    /\ pc = "done"
    /\ call.op = "update"
    /\ call.flag
    /\ Accepted
    /\ pre # <<>>
    /\ MatchIdx(pre, call.pattern) = {}
    /\ Len(store) = Len(pre) + 1

\* C8: during and after updateObjects with upsert = false on a namespace
\* with no match, no insert, update or deleteRecord is issued and the store
\* stays as it was.
C8_NoUpsertNoMutation ==
    (/\ call.op = "update"
     /\ ~call.flag
     /\ MatchIdx(pre, call.pattern) = {})
        => /\ Mutations = {}
           /\ store = pre

\* an accepted update without upsert has scanned a non-empty namespace to
\* its end without a match
C8_Witness ==
    /\ pc = "done"
    /\ call.op = "update"
    /\ ~call.flag
    /\ Accepted
    /\ pre # <<>>
    /\ MatchIdx(pre, call.pattern) = {}
    /\ Cardinality(Issued("current")) = Len(pre)

\* C9: runQuery with ntoreturn = 0 reads every record of the namespace once,
\* in order, and replies with all the matching documents in scan order,
\* nReturned being their number.
C9_UnboundedQuery ==
    (/\ pc = "done"
     /\ call.op = "query"
     /\ call.ntoreturn = 0)
        => /\ qr.nReturned = Cardinality(MatchIdx(pre, call.pattern))
           /\ b = DocsOf(Selected(pre, call.pattern))
           /\ LET reads == SelectSeq(trace, LAMBDA e : e.op = "current")
              IN  [i \in 1..Len(reads) |-> reads[i].loc]
                      = [i \in 1..Len(pre) |-> pre[i].loc]

\* an unbounded query has returned several matches and skipped a non-match
C9_Witness ==
    /\ pc = "done"
    /\ call.op = "query"
    /\ call.ntoreturn = 0
    /\ qr.nReturned >= 2
    /\ qr.nReturned < Len(pre)

\* C10: runQuery with ntoreturn = L > 0 on a namespace with at least L
\* matches replies with the first L matching documents, nReturned = L, and
\* the read of the L-th match is the last thing the scan does: no advance
\* and no read follows it.
C10_BoundedQuery ==
    (/\ pc = "done"
     /\ call.op = "query"
     /\ call.ntoreturn > 0
     /\ Cardinality(MatchIdx(pre, call.pattern)) >= call.ntoreturn)
        => LET sel == Selected(pre, call.pattern)
               L   == call.ntoreturn
           IN  /\ qr.nReturned = L
               /\ b = DocsOf(SubSeq(sel, 1, L))
               /\ trace[Len(trace)] = Ev("current", sel[L].loc, sel[L].loc)
               /\ c = sel[L].loc
               /\ \A i \in 1..Len(trace) :
                      trace[i].op \in {"current", "advance"} =>
                          IndexOf(pre, trace[i].loc) <= IndexOf(pre, sel[L].loc)
               /\ \A i \in Issued("advance") : trace[i].loc # sel[L].loc

\* a bounded query has stopped at its second match with a match left unread
C10_Witness ==
    /\ pc = "done"
    /\ call.op = "query"
    /\ call.ntoreturn = 2
    /\ qr.nReturned = 2
    /\ Cardinality(MatchIdx(pre, call.pattern)) > 2
    /\ Cardinality(Issued("current")) < Len(pre)

\* C11: the reply header of every runQuery call has len = header size plus
\* the byte sizes of the appended documents, reserved = 0, operation = the
\* reply tag, cursorId = 0, startingFrom = 0 and nReturned = the number of
\* appended documents.
C11_ReplyHeader ==
    (pc = "done" /\ call.op = "query") =>
        LET bytes[i \in 0..Len(b)] ==
                IF i = 0 THEN 0 ELSE bytes[i-1] + objsize(b[i])
        IN  /\ qr.len = 28 + bytes[Len(b)]
            /\ qr.reserved = 0
            /\ qr.operation = opReply
            /\ qr.cursorId = 0
            /\ qr.startingFrom = 0
            /\ qr.nReturned = Len(b)
            /\ \A i \in 1..Len(b) : \E j \in 1..Len(pre) : b[i] = pre[j].doc

\* a reply carrying two documents has been built
C11_Witness ==
    /\ pc = "done"
    /\ call.op = "query"
    /\ Len(b) = 2
    /\ qr.len > HeaderSize
    /\ qr.nReturned = 2

\* C12: when a deleteRecord fails during deleteObjects with justOne = false,
\* the call ends at once with the failure: the failing delete is the last
\* thing it did and is issued once, the records deleted before it stay
\* deleted, and every other record, the failing one included, is still there.
C12_DeleteFailure ==
    (call.op = "delete" /\ ~call.flag /\ err = "io_failure") =>
        LET last == trace[Len(trace)]
            done == {trace[i].loc : i \in Issued("deleteRecord") \ {Len(trace)}}
        IN  /\ pc = "done"
            /\ last.op = "deleteRecord"
            /\ last.loc \notin done
            /\ last.loc \in Locs(store)
            /\ store = SelectSeq(pre, LAMBDA rec : rec.loc \notin done)
            /\ \A l \in done :
                  /\ matches(call.pattern, pre[IndexOf(pre, l)].doc)
                  /\ IndexOf(pre, l) < IndexOf(pre, last.loc)

\* a delete has failed after an earlier one went through, with a match left
\* behind the failing record
C12_Witness ==
    /\ call.op = "delete"
    /\ ~call.flag
    /\ err = "io_failure"
    /\ Len(store) < Len(pre)
    /\ \E i \in 1..Len(store) :
          /\ matches(call.pattern, store[i].doc)
          /\ IndexOf(pre, store[i].loc) > IndexOf(pre, trace[Len(trace)].loc)

\* C13: deleteObjects and updateObjects reject a namespace exactly when the
\* first 7 characters of the whole namespace string are "system.":
\* "system.indexes" is rejected, "db.system.indexes" is not.
C13_FullStringCheck ==
    call.op \in {"delete", "update"} =>
        /\ err = "system_ns" <=>
              (Len(ns) >= 7 /\ \A i \in 1..7 : ns[i] = SystemPrefix[i])
        /\ ns = NsSystem => (err = "system_ns" /\ pc = "done" /\ trace = <<>>)
        /\ ns = NsDbSystem => (err # "system_ns" /\ trace # <<>>)

\* a delete on "db.system.indexes" has gone through and removed a record
C13_Witness ==
    /\ call.op = "delete"
    /\ ns = NsDbSystem
    /\ err = "none"
    /\ Issued("deleteRecord") # {}
    /\ Len(store) < Len(pre)

\* C14: within one deleteObjects or updateObjects call, the location about
\* to be passed to deleteRecord or update is that of a live record, every
\* location passed is one of a record the namespace held when the call
\* started, and no location is passed to these primitives twice.
C14_LiveHandlesOnce ==
    call.op \in {"delete", "update"} =>
        LET destr == Issued("deleteRecord") \cup Issued("update")
        IN  /\ pc = "del_delete" => (rloc \in Locs(store) /\ r = rloc)
            /\ pc = "upd_update" => (c \in Locs(store) /\ r = c)
            /\ \A i \in destr : trace[i].loc \in Locs(pre)
            /\ \A i, j \in destr : i # j => trace[i].loc # trace[j].loc

\* a delete call has passed two different live locations to deleteRecord
C14_Witness ==
    /\ call.op = "delete"
    /\ err = "none"
    /\ Cardinality(Issued("deleteRecord")) >= 2
    /\ Len(store) = Len(pre) - Cardinality(Issued("deleteRecord"))

\* C15: in updateObjects an insert is issued only with the cursor exhausted,
\* after every record has been read and none matched; when some record
\* matches, no insert is issued and the namespace keeps its number of
\* records, with or without upsert.
C15_InsertOnlyAfterExhaustion ==
    call.op = "update" =>
        /\ \A i \in Issued("insert") :
              /\ i = Len(trace)
              /\ trace[i].at = NullLoc
              /\ MatchIdx(pre, call.pattern) = {}
              /\ Cardinality(Issued("current")) = Len(pre)
              /\ Cardinality(Issued("advance")) = Len(pre)
        /\ MatchIdx(pre, call.pattern) # {} =>
              /\ Issued("insert") = {}
              /\ Len(store) = Len(pre)

\* an update with upsert set has changed a matching record behind a
\* non-matching one, leaving the number of records as it was
C15_Witness ==
    /\ pc = "done"
    /\ call.op = "update"
    /\ call.flag
    /\ Accepted
    /\ MatchIdx(pre, call.pattern) # {}
    /\ FirstMatch(pre, call.pattern) > 1
    /\ Issued("update") # {}
    /\ store # pre

\* C16: every deleteObjects, updateObjects and runQuery call on the (finite)
\* namespace comes to its end; during a call the cursor is moved by advance
\* only and only forward in scan order, the current record and location are
\* read only from a cursor that has more, and no record is read twice.
C16_ReadDiscipline ==
    LET reads == Issued("current")
    IN  /\ \A i \in reads \cup Issued("currLoc") :
              /\ trace[i].at # NullLoc
              /\ trace[i].loc = trace[i].at
              /\ trace[i].loc \in Locs(pre)
        /\ \A i, j \in reads : i # j => trace[i].loc # trace[j].loc

C16_ForwardOnly ==
    (pc \notin {"idle", "done"} /\ c' # c) =>
        /\ trace' = Append(trace, Ev("advance", c, c))
        /\ c \in Locs(pre)
        /\ c' # NullLoc =>
              (c' \in Locs(pre) /\ IndexOf(pre, c') > IndexOf(pre, c))

C16_ScanTerminates ==
    /\ []C16_ReadDiscipline
    /\ [][C16_ForwardOnly]_vars
    /\ (pc \notin {"idle", "done"}) ~> (pc = "done")

\* a delete call has read every record of a full namespace and come to its end
C16_Witness ==
    /\ pc = "done"
    /\ call.op = "delete"
    /\ Len(pre) = MaxRecs
    /\ Cardinality(Issued("current")) = Len(pre)
    /\ Cardinality(Issued("advance")) = Len(pre)
    /\ c = NullLoc

\* C17: on a namespace without records, deleteObjects (either justOne) and
\* updateObjects without upsert issue no insert, update or deleteRecord and
\* end without a failure, and runQuery replies with nReturned = 0 and len =
\* the header size; the namespace is still empty afterwards and the outcome
\* depends on nothing but the arguments, so a repeated call ends the same.
C17_EmptyNamespace ==
    pre = <<>> =>
        /\ (call.op = "delete" \/ (call.op = "update" /\ ~call.flag)) =>
              /\ Mutations = {}
              /\ store = <<>>
              /\ err \in {"none", "system_ns"}
              /\ (pc = "done" /\ err = "none") =>
                    trace = <<Ev("findAll", NullLoc, NullLoc)>>
              /\ (pc = "done" /\ err = "system_ns") => trace = <<>>
        /\ (call.op = "query" /\ pc = "done") =>
              /\ store = <<>>
              /\ err = "none"
              /\ b = <<>>
              /\ qr = [len |-> 28, reserved |-> 0, operation |-> opReply,
                       cursorId |-> 0, startingFrom |-> 0, nReturned |-> 0]
              /\ trace = <<Ev("findAll", NullLoc, NullLoc)>>

\* a second call in a row has ended on the namespace, empty from the start
C17_Witness ==
    /\ calls = 2
    /\ nextLoc = 1
    /\ pc = "done"
    /\ pre = <<>>
    /\ store = <<>>
    /\ call.op \in {"delete", "update"}
    /\ err = "none"

\* C18: runQuery is never rejected and never issues an insert, update or
\* deleteRecord, on a namespace starting with "system." as on any other:
\* the records and their order are as they were before the call.
C18_QueryReadsOnly ==
    call.op = "query" =>
        /\ store = pre
        /\ Mutations = {}
        /\ err = "none"
        /\ trace # <<>>

\* a query on "system.indexes" has returned documents
C18_Witness ==
    /\ pc = "done"
    /\ call.op = "query"
    /\ ns = NsSystem
    /\ qr.nReturned >= 2
    /\ store = pre

\* C19: with ntoreturn = L # 0 and k matches, runQuery returns the first
\* min(k, L) matches when L > 0 and the first min(k, 1) when L < 0; when it
\* returns fewer than k it stops on the last match it returns.
C19_LimitedQuery ==
    (pc = "done" /\ call.op = "query" /\ call.ntoreturn # 0) =>
        LET sel == Selected(pre, call.pattern)
            k   == Len(sel)
            lim == IF call.ntoreturn > 0 THEN call.ntoreturn ELSE 1
            m   == IF k < lim THEN k ELSE lim
        IN  /\ qr.nReturned = m
            /\ b = DocsOf(SubSeq(sel, 1, m))
            /\ k >= lim =>
                  trace[Len(trace)] = Ev("current", sel[m].loc, sel[m].loc)
            /\ k < lim => Cardinality(Issued("current")) = Len(pre)

\* a query with a negative ntoreturn has returned one of several matches
C19_Witness ==
    /\ pc = "done"
    /\ call.op = "query"
    /\ call.ntoreturn < 0
    /\ Len(Selected(pre, call.pattern)) >= 2
    /\ qr.nReturned = 1

\* C20: a ValidateCommand call that meets an error (no argument, more than
\* two, an unknown command, a missing or empty argument of search, put, get
\* or delete, a blank GridFS prefix) returns it and leaves Command and
\* FileName as they were; any other call returns nil and sets Command to
\* args[0] and FileName to args[1], or to "" for a one-argument list.
C20_AssignOnlyOnSuccess ==
    [][LET a   == vc'.args
           bad == \/ Len(a) = 0
                  \/ Len(a) > 2
                  \/ a[1] \notin {"list", "search", "put", "get", "delete"}
                  \/ /\ a[1] \in {"search", "put", "get", "delete"}
                     /\ (Len(a) = 1 \/ a[2] = "")
                  \/ mf.GridFSPrefix = ""
       IN  /\ mf'.GridFSPrefix = mf.GridFSPrefix
           /\ bad => /\ vc'.err # "nil"
                     /\ mf'.Command = mf.Command
                     /\ mf'.FileName = mf.FileName
           /\ ~bad => /\ vc'.err = "nil"
                      /\ mf'.Command = a[1]
                      /\ mf'.FileName = IF Len(a) = 1 THEN "" ELSE a[2]]_<<mf, vc>>

\* a call without the argument of put has failed after a successful
\* "get a.txt", whose Command and FileName are still in place
C20_Witness ==
    /\ vc.args = <<"put">>
    /\ vc.err = "argument missing"
    /\ mf.Command = "get"
    /\ mf.FileName = "a.txt"

====
